---------------------------- MODULE Spec2Model ----------------------------
(***************************************************************************)
(* The crossword constraint-satisfaction solver of                         *)
(* src/3.Optimization/crossword/generate.py (class CrosswordCreator):      *)
(* node consistency, AC-3 propagation and heuristic backtracking search.   *)
(*                                                                         *)
(* A word is a tuple of one-letter strings; Python's 0-based word[k] is    *)
(* Char(word, k).  A slot (a crossword Variable) is a record               *)
(* [i, j, direction, length].  The Crossword class (crossword.py) is not   *)
(* among the sources: the grid model below follows section 3 of the        *)
(* specification (slots are maximal runs of length >= 2, overlaps come     *)
(* from the shared cell).                                                  *)
(***************************************************************************)
EXTENDS Integers, Sequences, FiniteSets, TLC

\* Largest vocabulary (number of words) a modelled run is given.
MaxVocab == 4

\* Longest worklist handed to ac3(arcs) as its initial list of arcs.
MaxArcs == 2

\* Largest vocabulary of a run whose ac3 is handed its worklist.
MaxArcsVocab == 3

ACROSS == "across"
DOWN == "down"

\* The words a vocabulary is drawn from.
Universe ==
    { <<"a","t">>, <<"t","a">>,
      <<"c","a","t">>, <<"c","a","r">>, <<"d","o","g">>, <<"t","a","t">>,
      <<"r","a","t">> }

\* The vocabularies: the non-empty subsets of Universe of at most MaxVocab words.
Vocabularies ==
    { V \in SUBSET Universe : V # {} /\ Cardinality(V) <= MaxVocab }

\* The grid structures (fillable cells <<row, column>>) a run is given:
\*   a 1x3 row; two slots of length 3 crossing at (0,0); three slots of
\*   length 3 (one across, two down from its ends); a slot of length 2
\*   crossing the middle of a slot of length 3, beside an isolated slot of
\*   length 2; a slot of length 3 crossed by two slots of length 2.
Structures ==
    { [height |-> 1, width |-> 3, cells |-> {<<0,0>>, <<0,1>>, <<0,2>>}],
      [height |-> 3, width |-> 3,
       cells |-> {<<0,0>>, <<0,1>>, <<0,2>>, <<1,0>>, <<2,0>>}],
      [height |-> 3, width |-> 3,
       cells |-> {<<0,0>>, <<0,1>>, <<0,2>>, <<1,0>>, <<2,0>>, <<1,2>>, <<2,2>>}],
      [height |-> 4, width |-> 4,
       cells |-> {<<0,1>>, <<1,0>>, <<1,1>>, <<2,1>>, <<2,3>>, <<3,3>>}],
      [height |-> 3, width |-> 3,
       cells |-> {<<0,1>>, <<1,0>>, <<1,1>>, <<2,1>>, <<2,2>>}] }

(***************************************************************************)
(* Grid model                                                              *)
(***************************************************************************)

\* Length of the run of fillable cells starting at (i,j) and going down
\* (di = 1, dj = 0) or across (di = 0, dj = 1).
RECURSIVE RunLength(_, _, _, _, _)
RunLength(s, i, j, di, dj) ==
    IF <<i, j>> \in s.cells THEN 1 + RunLength(s, i + di, j + dj, di, dj) ELSE 0

\* The slots of a structure: every maximal run of at least two cells.
Slots(s) ==
    { [i |-> c[1], j |-> c[2], direction |-> DOWN,
       length |-> RunLength(s, c[1], c[2], 1, 0)] :
         c \in { d \in s.cells : /\ <<d[1] - 1, d[2]>> \notin s.cells
                                 /\ RunLength(s, d[1], d[2], 1, 0) > 1 } }
    \cup
    { [i |-> c[1], j |-> c[2], direction |-> ACROSS,
       length |-> RunLength(s, c[1], c[2], 0, 1)] :
         c \in { d \in s.cells : /\ <<d[1], d[2] - 1>> \notin s.cells
                                 /\ RunLength(s, d[1], d[2], 0, 1) > 1 } }

\* The cell holding character k (0-based) of slot v.
CellAt(v, k) ==
    IF v.direction = DOWN THEN <<v.i + k, v.j>> ELSE <<v.i, v.j + k>>

None == <<>>

\* The overlap of two different slots: None, or <<posA, posB>> (0-based)
\* when character posA of a and character posB of b share a cell.
Overlap(a, b) ==
    LET shared == { p \in (0 .. a.length - 1) \X (0 .. b.length - 1) :
                       CellAt(a, p[1]) = CellAt(b, p[2]) }
    IN  IF shared = {} THEN None ELSE CHOOSE p \in shared : TRUE

\* The Crossword object: vocabulary, slot set and overlap map.
Crossword(s, V) ==
    [ words |-> V,
      variables |-> Slots(s),
      overlaps |-> [ p \in { q \in Slots(s) \X Slots(s) : q[1] # q[2] }
                        |-> Overlap(p[1], p[2]) ] ]

VARIABLES
    crossword,   \* the Crossword: words, variables, overlaps
    domains,     \* self.domains: slot -> set of words
    pc,          \* where the solve is
    queue,       \* ac3's worklist of arcs <<x, y>>
    ac3ret,      \* what the ac3 call returned ("pending" until it returns)
    assignment,  \* backtrack's shared assignment: slot -> word, partial
    stack,       \* backtrack's call stack, innermost frame last
    result,      \* what solve returned: [ret |-> "pending"], [ret |-> "None"]
                 \* or [ret |-> "assignment", assignment |-> the mapping]
    call         \* the last helper call: its arguments and what it returned

vars == <<crossword, domains, pc, queue, ac3ret, assignment, stack, result, call>>

\* Slot b is a neighbor of slot a: their overlap is defined.
neighbors(var) ==
    { v \in crossword.variables : v # var /\ crossword.overlaps[<<v, var>>] # None }

\* Python's word[k], k counted from 0; "IndexError" past the end.
Char(word, k) == IF k + 1 \in DOMAIN word THEN word[k + 1] ELSE "IndexError"

NoCall == [op |-> "none"]

\* dict(): the assignment with no entry.
EmptyAssignment == [ v \in {} |-> None ]

(***************************************************************************)
(* Construction                                                            *)
(***************************************************************************)

\* CrosswordCreator.__init__: every slot starts with the whole vocabulary.
InitDomains(cw) == [ var \in cw.variables |-> cw.words ]

Init ==
    /\ \E s \in Structures, V \in Vocabularies : crossword = Crossword(s, V)
    /\ domains = InitDomains(crossword)
    /\ pc = "solve"
    /\ queue = <<>>
    /\ ac3ret = "pending"
    /\ assignment = EmptyAssignment
    /\ stack = <<>>
    /\ result = [ret |-> "pending"]
    /\ call = NoCall

(***************************************************************************)
(* Node consistency                                                        *)
(***************************************************************************)

\* enforce_node_consistency with the length test as <: longer words stay.
enforce_node_consistency_shorter(doms) ==
    [ var \in DOMAIN doms |->
        doms[var] \ { word \in doms[var] : Len(word) < var.length } ]

\* enforce_node_consistency: drop every word whose length is not the slot's.
enforce_node_consistency(doms) ==
    [ var \in DOMAIN doms |->
        doms[var] \ { word \in doms[var] : Len(word) # var.length } ]

\* solve, line 98.
EnforceNodeConsistency ==
    /\ pc = "solve"
    /\ domains' = enforce_node_consistency(domains)
    /\ pc' = "ac3"
    /\ call' = [op |-> "enforce_node_consistency"]
    /\ UNCHANGED <<crossword, queue, ac3ret, assignment, stack, result>>

(***************************************************************************)
(* Arc consistency                                                         *)
(***************************************************************************)

\* words_to_remove with the two overlap positions taken the wrong way round.
words_to_remove_swapped(doms, x, y) ==
    LET overlap == crossword.overlaps[<<x, y>>]
        corresponding_y_chars == { Char(w, overlap[1]) : w \in doms[y] }
    IN  { x_word \in doms[x] : Char(x_word, overlap[2]) \notin corresponding_y_chars }

\* The words of doms[x] that revise(x, y) removes: those whose character at
\* the overlap no word of doms[y] matches.
words_to_remove(doms, x, y) ==
    LET overlap == crossword.overlaps[<<x, y>>]
        corresponding_y_chars == { Char(w, overlap[2]) : w \in doms[y] }
    IN  { x_word \in doms[x] : Char(x_word, overlap[1]) \notin corresponding_y_chars }

\* revise reporting a revision whenever the slots overlap.
revise_flag(doms, x, y) ==
    IF crossword.overlaps[<<x, y>>] # None
    THEN [ domains |-> [doms EXCEPT ![x] = @ \ words_to_remove(doms, x, y)],
           revised |-> TRUE ]
    ELSE [ domains |-> doms, revised |-> FALSE ]

\* revise(x, y): the domains it leaves and the value it returns.
revise(doms, x, y) ==
    IF crossword.overlaps[<<x, y>>] # None
    THEN [ domains |-> [doms EXCEPT ![x] = @ \ words_to_remove(doms, x, y)],
           revised |-> words_to_remove(doms, x, y) # {} ]
    ELSE [ domains |-> doms, revised |-> FALSE ]

\* Every order in which the elements of S can be listed.
Orders(S) ==
    { f \in [1 .. Cardinality(S) -> S] :
        \A m, n \in 1 .. Cardinality(S) : m # n => f[m] # f[n] }

\* ac3's default worklist holds every ordered pair of overlapping slots.
AllArcs ==
    { arc \in crossword.variables \X crossword.variables :
        arc[1] # arc[2] /\ crossword.overlaps[arc] # None }

\* ac3 appending no arc after a revision.
Requeued_none(x, y) == {}

\* ac3 appending the arcs the wrong way round: (x, z) for (z, x).
Requeued_reversed(x, y) == { <<x, z>> : z \in neighbors(x) \ {y} }

\* The arcs ac3 appends after revise(x, y) shrank x's domain.
Requeued(x, y) == { <<z, x>> : z \in neighbors(x) \ {y} }

\* ac3(arcs=None), lines 154-156: the worklist is built, in the order the
\* slot set happens to iterate.
Ac3Begin ==
    /\ pc = "ac3"
    /\ \E q \in Orders(AllArcs) : queue' = q
    /\ pc' = "ac3_loop"
    /\ call' = NoCall
    /\ UNCHANGED <<crossword, domains, ac3ret, assignment, stack, result>>

\* ac3's loop without the test len(self.domains[x]) == 0: False is returned
\* after any revision.
Ac3Step_eager ==
    /\ pc = "ac3_loop"
    /\ queue # <<>>
    /\ LET x == Head(queue)[1]
           y == Head(queue)[2]
           r == revise(domains, x, y)
       IN  /\ domains' = r.domains
           /\ call' = [op |-> "revise", x |-> x, y |-> y,
                       before |-> domains, ret |-> r.revised]
           /\ IF r.revised
              THEN /\ ac3ret' = "False"
                   /\ pc' = "ac3_done"
                   /\ queue' = Tail(queue)
              ELSE /\ queue' = Tail(queue)
                   /\ UNCHANGED <<ac3ret, pc>>
    /\ UNCHANGED <<crossword, assignment, stack, result>>

\* Ac3Step reading the first arc of the worklist without removing it.
Ac3Step_keep ==
    /\ pc = "ac3_loop"
    /\ queue # <<>>
    /\ LET x == Head(queue)[1]
           y == Head(queue)[2]
           r == revise(domains, x, y)
       IN  /\ domains' = r.domains
           /\ call' = [op |-> "revise", x |-> x, y |-> y,
                       before |-> domains, ret |-> r.revised]
           /\ IF r.revised /\ r.domains[x] = {}
              THEN /\ ac3ret' = "False"
                   /\ pc' = "ac3_done"
                   /\ queue' = Tail(queue)
              ELSE /\ \E more \in Orders(IF r.revised THEN Requeued(x, y) ELSE {}) :
                         queue' = queue \o more
                   /\ UNCHANGED <<ac3ret, pc>>
    /\ UNCHANGED <<crossword, assignment, stack, result>>

\* One iteration of ac3's loop, lines 160-167.
Ac3Step ==
    /\ pc = "ac3_loop"
    /\ queue # <<>>
    /\ LET x == Head(queue)[1]
           y == Head(queue)[2]
           r == revise(domains, x, y)
       IN  /\ domains' = r.domains
           /\ call' = [op |-> "revise", x |-> x, y |-> y,
                       before |-> domains, ret |-> r.revised]
           /\ IF r.revised /\ r.domains[x] = {}
              THEN /\ ac3ret' = "False"
                   /\ pc' = "ac3_done"
                   /\ queue' = Tail(queue)
              ELSE /\ \E more \in Orders(IF r.revised THEN Requeued(x, y) ELSE {}) :
                         queue' = Tail(queue) \o more
                   /\ UNCHANGED <<ac3ret, pc>>
    /\ UNCHANGED <<crossword, assignment, stack, result>>

\* ac3's loop ends with the worklist empty, line 169.
Ac3Return ==
    /\ pc = "ac3_loop"
    /\ queue = <<>>
    /\ ac3ret' = "True"
    /\ pc' = "ac3_done"
    /\ call' = NoCall
    /\ UNCHANGED <<crossword, domains, queue, assignment, stack, result>>

(***************************************************************************)
(* Consistency checker                                                     *)
(***************************************************************************)

\* assignment_complete: every slot has an entry and no entry is the empty word.
assignment_complete(a) ==
    /\ DOMAIN a = crossword.variables
    /\ \A v \in DOMAIN a : a[v] # <<>>

\* consistent without the test for distinct words.
distinct_values_skipped(a) == TRUE

\* Line 189: as many different words as slots.
distinct_values(a) ==
    Cardinality({ a[v] : v \in DOMAIN a }) = Cardinality(DOMAIN a)

\* consistent without the length test.
correct_lengths_skipped(a) == TRUE

\* Line 193: every word as long as its slot.
correct_lengths(a) == \A var \in DOMAIN a : var.length = Len(a[var])

\* consistent without the loop over neighbouring slots.
compared_none(a) == {}

\* Lines 197-201: the character pairs the loop compares, as
\* <<word, position, other word, other position>>.
compared(a) ==
    { <<a[p[1]], crossword.overlaps[p][1], a[p[2]], crossword.overlaps[p][2]>> :
        p \in { q \in (DOMAIN a) \X (DOMAIN a) : q[2] \in neighbors(q[1]) } }

\* consistent(assignment).
consistent(a) ==
    IF ~distinct_values(a) THEN FALSE
    ELSE IF ~correct_lengths(a) THEN FALSE
    ELSE \A c \in compared(a) : Char(c[1], c[2]) = Char(c[3], c[4])

\* The <<word, position>> reads word[position] that consistent(a) may make
\* (its loop stops at the first conflict, in an order the dict decides).
consistent_reads(a) ==
    IF ~distinct_values(a) THEN {}
    ELSE IF ~correct_lengths(a) THEN {}
    ELSE { <<c[1], c[2]>> : c \in compared(a) } \cup { <<c[3], c[4]>> : c \in compared(a) }

(***************************************************************************)
(* Search heuristics                                                       *)
(***************************************************************************)

\* Sum of f over the finite set S.
RECURSIVE Sum(_, _)
Sum(f, S) ==
    IF S = {} THEN 0
    ELSE LET e == CHOOSE e \in S : TRUE IN f[e] + Sum(f, S \ {e})

\* order_domain_values, lines 214-221: the weight of each word of var's
\* domain.
weights(var, a) ==
    [ word_var \in domains[var] |->
        Sum([ neighbor \in neighbors(var) \ DOMAIN a |->
                Cardinality({ word_neighbor \in domains[neighbor] :
                    Char(word_var, crossword.overlaps[<<var, neighbor>>][1])
                      # Char(word_neighbor, crossword.overlaps[<<var, neighbor>>][2]) }) ],
            neighbors(var) \ DOMAIN a) ]

\* order_domain_values stopping after the least-constraining word.
order_domain_values_first(var, a) ==
    { IF l = <<>> THEN l ELSE <<l[1]>> :
        l \in { k \in Orders(domains[var]) :
                  \A m, n \in 1 .. Len(k) :
                      m < n => weights(var, a)[k[m]] <= weights(var, a)[k[n]] } }

\* order_domain_values sorting with reverse=True.
order_domain_values_descending(var, a) ==
    { l \in Orders(domains[var]) :
        \A m, n \in 1 .. Len(l) : m < n => weights(var, a)[l[m]] >= weights(var, a)[l[n]] }

\* order_domain_values(var, assignment): the lists it can return.  sorted()
\* is stable, so words of equal weight keep the order the set iterates in.
order_domain_values(var, a) ==
    { l \in Orders(domains[var]) :
        \A m, n \in 1 .. Len(l) : m < n => weights(var, a)[l[m]] <= weights(var, a)[l[n]] }

\* select_unassigned_variable(assignment): the slots it can return.  The
\* tie test looks at the two smallest domains; on a tie the degree sort runs
\* over every unassigned slot.
select_unassigned_variable(a) ==
    LET unassigned_vars == crossword.variables \ DOMAIN a
        smallest == { v \in unassigned_vars :
                        \A u \in unassigned_vars :
                            Cardinality(domains[v]) <= Cardinality(domains[u]) }
    IN  IF Cardinality(smallest) = 1
        THEN smallest
        ELSE { v \in unassigned_vars :
                 \A u \in unassigned_vars :
                     Cardinality(neighbors(v)) >= Cardinality(neighbors(u)) }

(***************************************************************************)
(* Backtracking search                                                     *)
(***************************************************************************)

\* assignment[var] = value on a copy.
Extended(a, var, value) ==
    [ v \in DOMAIN a \cup {var} |-> IF v = var THEN value ELSE a[v] ]

\* backtrack without its assignment.pop(var, None).
Popped_kept(a, var) == a

\* assignment.pop(var, None).
Popped(a, var) == [ v \in DOMAIN a \ {var} |-> a[v] ]

Top == stack[Len(stack)]

\* solve, line 100: backtrack is called on an empty assignment, whatever
\* ac3 returned.
SolveBacktrack ==
    /\ pc = "ac3_done"
    /\ assignment' = EmptyAssignment
    /\ queue' = <<>>
    /\ pc' = "call"
    /\ call' = NoCall
    /\ UNCHANGED <<crossword, domains, ac3ret, stack, result>>

\* backtrack, lines 258-259: a complete assignment is returned, through
\* every caller (lines 268-269).
BacktrackReturnAssignment ==
    /\ pc = "call"
    /\ assignment_complete(assignment)
    /\ result' = [ret |-> "assignment", assignment |-> assignment]
    /\ stack' = <<>>
    /\ pc' = "done"
    /\ call' = NoCall
    /\ UNCHANGED <<crossword, domains, queue, ac3ret, assignment>>

\* backtrack, lines 261-262: a slot is selected and its words are ordered.
BacktrackSelect ==
    /\ pc = "call"
    /\ ~assignment_complete(assignment)
    /\ \E var \in select_unassigned_variable(assignment) :
         \E values \in order_domain_values(var, assignment) :
            /\ stack' = Append(stack, [var |-> var, values |-> values,
                                       entry |-> assignment])
            /\ call' = [op |-> "select", assignment |-> assignment,
                        var |-> var, values |-> values]
    /\ pc' = "loop"
    /\ UNCHANGED <<crossword, domains, queue, ac3ret, assignment, result>>

\* BacktrackTry narrowing the slot's domain to the word it commits to
\* (self.domains[var] = {value}) and never restoring it.
BacktrackTry_prune ==
    /\ pc = "loop"
    /\ Top.values # <<>>
    /\ LET var == Top.var
           value == Head(Top.values)
           test_assignment == Extended(assignment, var, value)
       IN  /\ stack' = [stack EXCEPT ![Len(stack)].values = Tail(@)]
           /\ call' = [op |-> "consistent", assignment |-> test_assignment,
                       ret |-> consistent(test_assignment),
                       reads |-> consistent_reads(test_assignment)]
           /\ IF consistent(test_assignment)
              THEN /\ assignment' = Extended(assignment, var, value)
                   /\ domains' = [domains EXCEPT ![var] = {value}]
                   /\ pc' = "call"
              ELSE /\ assignment' = Popped(assignment, var)
                   /\ domains' = domains
                   /\ pc' = "loop"
    /\ UNCHANGED <<crossword, queue, ac3ret, result>>

\* backtrack, lines 262-267 and 270: the next word is tried; it is written
\* into the assignment and backtrack is called when consistent accepts it,
\* and otherwise the slot is popped.
BacktrackTry ==
    /\ pc = "loop"
    /\ Top.values # <<>>
    /\ LET var == Top.var
           value == Head(Top.values)
           test_assignment == Extended(assignment, var, value)
       IN  /\ stack' = [stack EXCEPT ![Len(stack)].values = Tail(@)]
           /\ call' = [op |-> "consistent", assignment |-> test_assignment,
                       ret |-> consistent(test_assignment),
                       reads |-> consistent_reads(test_assignment)]
           /\ IF consistent(test_assignment)
              THEN /\ assignment' = Extended(assignment, var, value)
                   /\ pc' = "call"
              ELSE /\ assignment' = Popped(assignment, var)
                   /\ pc' = "loop"
    /\ UNCHANGED <<crossword, domains, queue, ac3ret, result>>

\* backtrack, line 272: no word is left, None is returned; the caller (line
\* 270) pops its own slot and goes on with its loop.
BacktrackReturnNone ==
    /\ pc = "loop"
    /\ Top.values = <<>>
    /\ stack' = SubSeq(stack, 1, Len(stack) - 1)
    /\ call' = NoCall
    /\ IF Len(stack) = 1
       THEN /\ result' = [ret |-> "None"]
            /\ pc' = "done"
            /\ UNCHANGED assignment
       ELSE /\ assignment' = Popped(assignment, stack[Len(stack) - 1].var)
            /\ UNCHANGED <<result, pc>>
    /\ UNCHANGED <<crossword, domains, queue, ac3ret>>

Next ==
    \/ EnforceNodeConsistency
    \/ Ac3Begin
    \/ Ac3Step
    \/ Ac3Return
    \/ SolveBacktrack
    \/ BacktrackReturnAssignment
    \/ BacktrackSelect
    \/ BacktrackTry
    \/ BacktrackReturnNone

Spec == Init /\ [][Next]_vars

(***************************************************************************)
(* A solve whose ac3 call is given its worklist: ac3(arcs) with any list   *)
(* of neighbour arcs, repeated arcs included, or ac3() with the default    *)
(* one.  The program runs on until solve returns: every step that can be   *)
(* taken is taken.                                                         *)
(***************************************************************************)

\* The lists of at most MaxArcs neighbour arcs.
Worklists == UNION { [1 .. n -> AllArcs] : n \in 0 .. MaxArcs }

\* ac3(arcs), lines 157-158: the worklist is the list given.
Ac3BeginArcs ==
    /\ pc = "ac3"
    /\ \E arcs \in Worklists : queue' = arcs
    /\ pc' = "ac3_loop"
    /\ call' = NoCall
    /\ UNCHANGED <<crossword, domains, ac3ret, assignment, stack, result>>

NextArcs == Next \/ Ac3BeginArcs

\* Construction, with a vocabulary of at most MaxArcsVocab words.
InitArcs == Init /\ Cardinality(crossword.words) <= MaxArcsVocab

SpecArcs == InitArcs /\ [][NextArcs]_vars /\ WF_vars(NextArcs)

(***************************************************************************)
(* The operations called on their own: after node consistency, revise on   *)
(* any two different slots and consistent on any partial assignment of     *)
(* vocabulary words.                                                       *)
(***************************************************************************)

\* Every partial mapping from slots to vocabulary words.
Assignments ==
    UNION { [S -> crossword.words] : S \in SUBSET crossword.variables }

InitOps ==
    /\ \E s \in Structures, V \in Vocabularies : crossword = Crossword(s, V)
    /\ domains = InitDomains(crossword)
    /\ pc = "new"
    /\ queue = <<>>
    /\ ac3ret = "pending"
    /\ assignment = EmptyAssignment
    /\ stack = <<>>
    /\ result = [ret |-> "pending"]
    /\ call = NoCall

\* enforce_node_consistency called after construction.
OpsEnforceNodeConsistency ==
    /\ pc = "new"
    /\ domains' = enforce_node_consistency(domains)
    /\ pc' = "ops"
    /\ call' = [op |-> "enforce_node_consistency"]
    /\ UNCHANGED <<crossword, queue, ac3ret, assignment, stack, result>>

\* revise(x, y) called on two different slots.
OpsRevise ==
    /\ pc \in {"ops", "checked"}
    /\ \E x, y \in crossword.variables :
         /\ x # y
         /\ domains' = revise(domains, x, y).domains
         /\ call' = [op |-> "revise", x |-> x, y |-> y,
                     before |-> domains, ret |-> revise(domains, x, y).revised]
    /\ pc' = "ops"
    /\ UNCHANGED <<crossword, queue, ac3ret, assignment, stack, result>>

\* consistent(a) called on a partial assignment.  It changes nothing, so a
\* second call in a row would start from the same crossword and domains and
\* is left out.
OpsConsistent ==
    /\ pc = "ops"
    /\ \E a \in Assignments :
         call' = [op |-> "consistent", assignment |-> a,
                  ret |-> consistent(a), reads |-> consistent_reads(a)]
    /\ pc' = "checked"
    /\ UNCHANGED <<crossword, domains, queue, ac3ret, assignment, stack, result>>

NextOps == OpsEnforceNodeConsistency \/ OpsRevise \/ OpsConsistent

SpecOps == InitOps /\ [][NextOps]_vars

(***************************************************************************)
(* What the claims are stated in                                           *)
(***************************************************************************)

\* Characters at the overlap of two neighbouring slots u and v agree.
Agree(u, wu, v, wv) ==
    wu[crossword.overlaps[<<u, v>>][1] + 1] = wv[crossword.overlaps[<<u, v>>][2] + 1]

\* a[u] and a[v] are different words whenever u and v are different slots.
PairwiseDistinct(a) == \A u, v \in DOMAIN a : u # v => a[u] # a[v]

\* Every word of a has the length of its slot.
LengthsFit(a) == \A v \in DOMAIN a : Len(a[v]) = v.length

\* Every two assigned neighbours agree at their overlap.
NeighboursAgree(a) ==
    \A u \in DOMAIN a : \A v \in neighbors(u) \cap DOMAIN a : Agree(u, a[u], v, a[v])

\* a gives every slot a word and meets the three constraints.
IsSolution(a) ==
    /\ DOMAIN a = crossword.variables
    /\ PairwiseDistinct(a)
    /\ LengthsFit(a)
    /\ NeighboursAgree(a)

\* The complete consistent assignments that take each slot's word from doms.
SolutionsFrom(doms) ==
    { a \in [crossword.variables -> crossword.words] :
        (\A v \in crossword.variables : a[v] \in doms[v]) /\ IsSolution(a) }

\* The domains as enforce_node_consistency leaves them, before ac3 starts.
NodeConsistentDomains ==
    [ v \in crossword.variables |-> { w \in crossword.words : Len(w) = v.length } ]

\* Word w of slot a's domain has a matching word in slot b's domain.
Supported(doms, a, w, b) == \E v \in doms[b] : Agree(a, w, b, v)

ArcConsistent(doms) ==
    \A arc \in AllArcs : \A w \in doms[arc[1]] : Supported(doms, arc[1], w, arc[2])

(***************************************************************************)
(* C1: whenever solve returns an assignment, the assignment satisfies      *)
(* assignment_complete and consistent: every slot has a word, the words    *)
(* are pairwise distinct, each has its slot's length, and neighbouring     *)
(* slots agree at their overlap.                                           *)
(***************************************************************************)
C1_SolveReturnsSolution ==
    result.ret = "assignment" =>
        /\ assignment_complete(result.assignment)
        /\ consistent(result.assignment)
        /\ IsSolution(result.assignment)

\* solve returned an assignment of three crossing slots.
C1_Witness ==
    /\ pc = "done"
    /\ result.ret = "assignment"
    /\ Cardinality(crossword.variables) = 3
    /\ AllArcs # {}

(***************************************************************************)
(* C2: solve is complete: it returns None exactly when no complete         *)
(* consistent assignment of vocabulary words exists, whichever slot is     *)
(* selected and in whichever order the words are tried.                    *)
(***************************************************************************)
C2_SolveComplete ==
    pc = "done" =>
        (result.ret = "None" <=> SolutionsFrom(NodeConsistentDomains) = {})

\* solve returned an assignment where several solutions exist and the
\* search had more than one word to try for a slot.
C2_Witness ==
    /\ pc = "done"
    /\ result.ret = "assignment"
    /\ Cardinality(SolutionsFrom(NodeConsistentDomains)) >= 2
    /\ Cardinality(crossword.variables) = 3

(***************************************************************************)
(* C3: ac3 pruning is sound: at every point of an ac3 run every word that  *)
(* a complete consistent assignment over the pre-ac3 domains gives to a    *)
(* slot is still in the slot's domain; so when ac3 returns False no such   *)
(* assignment exists.                                                      *)
(***************************************************************************)
C3_Ac3Sound ==
    pc \in {"ac3_loop", "ac3_done"} =>
        /\ \A s \in SolutionsFrom(NodeConsistentDomains) :
              \A v \in crossword.variables : s[v] \in domains[v]
        /\ ac3ret = "False" => SolutionsFrom(NodeConsistentDomains) = {}

\* ac3 has pruned some domain of a crossword that has a solution.
C3_Witness ==
    /\ pc = "ac3_done"
    /\ domains # NodeConsistentDomains
    /\ SolutionsFrom(NodeConsistentDomains) # {}

(***************************************************************************)
(* C4: after ac3 with the default worklist has returned True the domains   *)
(* are arc consistent: for every ordered pair of neighbours (A, B) every   *)
(* word of domain[A] has a word of domain[B] matching it at the overlap.   *)
(***************************************************************************)
C4_Ac3ArcConsistent == ac3ret = "True" => ArcConsistent(domains)

\* ac3 returned True after pruning, and left no domain empty.
C4_Witness ==
    /\ ac3ret = "True"
    /\ pc = "ac3_done"
    /\ domains # NodeConsistentDomains
    /\ \A v \in crossword.variables : domains[v] # {}

(***************************************************************************)
(* C5: enforce_node_consistency leaves each slot's domain equal to the     *)
(* vocabulary words of the slot's length, and in every later state of a    *)
(* solve every word of every domain has the length of its slot.            *)
(***************************************************************************)
C5_NodeConsistency ==
    /\ pc = "ac3" =>
         \A v \in crossword.variables :
            domains[v] = { w \in crossword.words : Len(w) = v.length }
    /\ pc # "solve" =>
         \A v \in crossword.variables : \A w \in domains[v] : Len(w) = v.length

\* enforce_node_consistency has removed some words and kept others.
C5_Witness ==
    /\ pc = "ac3"
    /\ \E v \in crossword.variables :
          domains[v] # {} /\ domains[v] # crossword.words

(***************************************************************************)
(* C6: revise(x, y) on overlapping slots removes from domain[x] exactly    *)
(* the words with no matching word in domain[y], changes no other domain   *)
(* and returns True iff it removed a word; on slots that do not overlap    *)
(* it changes nothing and returns False.                                   *)
(***************************************************************************)
C6_ReviseContract ==
    call.op = "revise" =>
        IF crossword.overlaps[<<call.x, call.y>>] # None
        THEN /\ domains[call.x] =
                  { w \in call.before[call.x] :
                      Supported(call.before, call.x, w, call.y) }
             /\ \A z \in crossword.variables \ {call.x} : domains[z] = call.before[z]
             /\ call.ret <=> domains[call.x] # call.before[call.x]
        ELSE domains = call.before /\ call.ret = FALSE

\* revise removed some words of x's domain and kept others.
C6_Witness ==
    /\ call.op = "revise"
    /\ call.ret
    /\ domains[call.x] # {}

(***************************************************************************)
(* C7: consistent(assignment) is True iff the assigned words are pairwise  *)
(* distinct, each has its slot's length and assigned neighbours agree at   *)
(* their overlap; it is True of the empty assignment, False when two       *)
(* slots hold the same word, and it reads no position past the end of a    *)
(* word.                                                                   *)
(***************************************************************************)
C7_ConsistentContract ==
    call.op = "consistent" =>
        /\ call.ret <=> ( /\ PairwiseDistinct(call.assignment)
                          /\ LengthsFit(call.assignment)
                          /\ NeighboursAgree(call.assignment) )
        /\ call.assignment = EmptyAssignment => call.ret
        /\ ~PairwiseDistinct(call.assignment) => ~call.ret
        /\ \A r \in call.reads : r[2] + 1 \in DOMAIN r[1]

\* consistent rejected an assignment of distinct words for a wrong length.
C7_Witness ==
    /\ call.op = "consistent"
    /\ PairwiseDistinct(call.assignment)
    /\ ~LengthsFit(call.assignment)
    /\ Cardinality(DOMAIN call.assignment) >= 2
    /\ \E u \in DOMAIN call.assignment : neighbors(u) \cap DOMAIN call.assignment # {}
    /\ ~call.ret

(***************************************************************************)
(* C8: select_unassigned_variable returns an unassigned slot whose domain  *)
(* is smallest among the unassigned slots and, when several are smallest,  *)
(* one of those with the most neighbours among them.                       *)
(***************************************************************************)
C8_SelectMinimumRemaining ==
    call.op = "select" =>
        LET unassigned == crossword.variables \ DOMAIN call.assignment
            tied == { v \in unassigned :
                        \A u \in unassigned :
                            Cardinality(domains[v]) <= Cardinality(domains[u]) }
        IN  /\ call.var \in tied
            /\ \A u \in tied :
                  Cardinality(neighbors(call.var)) >= Cardinality(neighbors(u))

(***************************************************************************)
(* C9: order_domain_values returns every word of the slot's domain exactly *)
(* once, in non-decreasing order of conflict count: the number of          *)
(* (unassigned neighbour, word of its domain) pairs that disagree with     *)
(* the word at the overlap.                                                *)
(***************************************************************************)
ConflictCount(var, a, word) ==
    Cardinality({ p \in (neighbors(var) \ DOMAIN a) \X crossword.words :
                    p[2] \in domains[p[1]] /\ ~Agree(var, word, p[1], p[2]) })

C9_OrderDomainValues ==
    call.op = "select" =>
        /\ { call.values[n] : n \in 1 .. Len(call.values) } = domains[call.var]
        /\ Len(call.values) = Cardinality(domains[call.var])
        /\ \A m, n \in 1 .. Len(call.values) :
              m < n => ConflictCount(call.var, call.assignment, call.values[m])
                         <= ConflictCount(call.var, call.assignment, call.values[n])

\* The words of a slot with an assigned neighbour were ordered, and their
\* conflict counts differ.
C9_Witness ==
    /\ call.op = "select"
    /\ neighbors(call.var) \cap DOMAIN call.assignment # {}
    /\ neighbors(call.var) \ DOMAIN call.assignment # {}
    /\ \E m, n \in 1 .. Len(call.values) :
          ConflictCount(call.var, call.assignment, call.values[m])
            < ConflictCount(call.var, call.assignment, call.values[n])

(***************************************************************************)
(* C10: ac3 returns False exactly when some slot's domain is empty at the  *)
(* moment it returns, and True otherwise.                                  *)
(***************************************************************************)
C10_Ac3FalseIffEmptyDomain ==
    pc = "ac3_done" =>
        (ac3ret = "False" <=> \E v \in crossword.variables : domains[v] = {})

(***************************************************************************)
(* C11: whenever the slots of some length outnumber the vocabulary words   *)
(* of that length (two slots of one length, one word of that length),      *)
(* solve returns None.                                                     *)
(***************************************************************************)
SlotsOfLength(n) == { v \in crossword.variables : v.length = n }

WordsOfLength(n) == { w \in crossword.words : Len(w) = n }

\* Some length has more slots than words.
TooFewWords ==
    \E v \in crossword.variables :
        Cardinality(SlotsOfLength(v.length)) > Cardinality(WordsOfLength(v.length))

C11_TooFewWordsNoSolution ==
    (pc = "done" /\ TooFewWords) => result.ret = "None"

\* Two slots of one length and exactly one word of that length, every
\* domain non-empty and arc consistent: only the test for distinct words
\* stands between the search and an assignment.
C11_Witness ==
    /\ pc = "done"
    /\ result.ret = "None"
    /\ ac3ret = "True"
    /\ \A v \in crossword.variables : domains[v] # {}
    /\ \E v \in crossword.variables :
          /\ Cardinality(SlotsOfLength(v.length)) = 2
          /\ Cardinality(WordsOfLength(v.length)) = 1

(***************************************************************************)
(* C12: across a solve every slot's domain only shrinks, and from the      *)
(* moment backtrack is entered no domain changes at all.                   *)
(***************************************************************************)
C12_DomainsShrinkThenFrozen ==
    [][ /\ \A v \in crossword.variables : domains'[v] \subseteq domains[v]
        /\ pc \in {"call", "loop", "done"} => domains' = domains ]_vars

\* The search is two calls deep, on domains that both node consistency and
\* ac3 have narrowed.
C12_Witness ==
    /\ pc = "loop"
    /\ Len(stack) >= 2
    /\ domains # NodeConsistentDomains
    /\ NodeConsistentDomains # InitDomains(crossword)

(***************************************************************************)
(* C15: backtrack undoes its tentative entry: whenever a call returns      *)
(* None the assignment holds exactly the entries it held when the call     *)
(* was entered, and between two candidate words of the selected slot the   *)
(* slot is absent from the assignment.                                     *)
(***************************************************************************)
C15_BacktrackUndoes ==
    /\ pc = "loop" =>
          /\ assignment = Top.entry
          /\ Top.var \notin DOMAIN assignment
    /\ result.ret = "None" => assignment = EmptyAssignment

\* A nested call has just returned None to a caller that holds an entry of
\* its own and has words left to try.
C15_Witness ==
    /\ pc = "loop"
    /\ call = NoCall
    /\ Len(stack) >= 2
    /\ Top.values # <<>>

(***************************************************************************)
(* C16: in every state of backtrack started from the empty assignment the  *)
(* shared assignment is consistent and every assigned word belongs to the  *)
(* current domain of its slot.                                             *)
(***************************************************************************)
C16_AssignmentAlwaysConsistent ==
    pc \in {"call", "loop", "done"} =>
        /\ consistent(assignment)
        /\ PairwiseDistinct(assignment)
        /\ LengthsFit(assignment)
        /\ NeighboursAgree(assignment)
        /\ DOMAIN assignment \subseteq crossword.variables
        /\ \A v \in DOMAIN assignment : assignment[v] \in domains[v]

\* backtrack is called on two assigned neighbours, after an earlier
\* candidate of the second slot failed.
C16_Witness ==
    /\ pc = "call"
    /\ Cardinality(DOMAIN assignment) = 2
    /\ \E u \in DOMAIN assignment : neighbors(u) \cap DOMAIN assignment # {}
    /\ Len(Top.values) + 1 < Cardinality(domains[Top.var])

(***************************************************************************)
(* C17: solve runs backtrack whatever ac3 returned; whenever the ac3 call  *)
(* of a solve returned False, solve returns None.                          *)
(***************************************************************************)
C17_Ac3FalseSolveNone ==
    /\ [][pc = "ac3_done" => (pc' = "call" /\ domains' = domains)]_vars
    /\ []((pc = "done" /\ ac3ret = "False") => result.ret = "None")

\* solve returned None after ac3 returned False with work left on domains
\* that are not all empty.
C17_Witness ==
    /\ pc = "done"
    /\ ac3ret = "False"
    /\ result.ret = "None"
    /\ \E v \in crossword.variables : domains[v] # {}

(***************************************************************************)
(* C18: at the head of every iteration of ac3's loop (default worklist)    *)
(* every ordered neighbour arc that is not in the worklist is arc          *)
(* consistent; leaving (y, x) out after a successful revise(x, y) never    *)
(* leaves (y, x) inconsistent.                                             *)
(***************************************************************************)
InQueue(arc) == \E n \in 1 .. Len(queue) : queue[n] = arc

C18_WorklistInvariant ==
    pc = "ac3_loop" =>
        \A arc \in AllArcs :
            ~InQueue(arc) =>
                \A w \in domains[arc[1]] : Supported(domains, arc[1], w, arc[2])

\* revise(x, y) has just shrunk x's domain without emptying it, and (y, x)
\* is not in the worklist.
C18_Witness ==
    /\ pc = "ac3_loop"
    /\ call.op = "revise"
    /\ call.ret
    /\ ~InQueue(<<call.y, call.x>>)
    /\ queue # <<>>

(***************************************************************************)
(* C14: the outcome of ac3 does not depend on the order in which arcs are  *)
(* taken from the worklist or neighbours are enqueued: from the same       *)
(* starting domains every order gives the same True/False result, and      *)
(* when it is True the same domains, the largest arc-consistent            *)
(* sub-domains.                                                            *)
(***************************************************************************)
\* One round of pruning: every word with no match in some neighbour's
\* domain is dropped, in all slots at once.
PruneOnce(doms) ==
    [ v \in DOMAIN doms |->
        { w \in doms[v] : \A u \in neighbors(v) : Supported(doms, v, w, u) } ]

\* The largest arc-consistent sub-domains of doms: pruning repeated until
\* nothing changes.
RECURSIVE ArcFixpoint(_)
ArcFixpoint(doms) ==
    IF PruneOnce(doms) = doms THEN doms ELSE ArcFixpoint(PruneOnce(doms))

\* The result an ac3 run must give on doms whatever its order: False when
\* pruning empties a domain that was not empty.
ExpectedAc3Result(doms) ==
    IF \E v \in DOMAIN doms : doms[v] # {} /\ ArcFixpoint(doms)[v] = {}
    THEN "False" ELSE "True"

C14_Ac3OrderIndependent ==
    pc = "ac3_done" =>
        /\ ac3ret = ExpectedAc3Result(NodeConsistentDomains)
        /\ ac3ret = "True" => domains = ArcFixpoint(NodeConsistentDomains)

\* ac3 returned True on three slots after pruning that took more than one
\* round: a word lost its match only once a neighbour had been pruned.
C14_Witness ==
    /\ pc = "ac3_done"
    /\ ac3ret = "True"
    /\ Cardinality(crossword.variables) = 3
    /\ domains # PruneOnce(NodeConsistentDomains)
    /\ \A v \in crossword.variables : domains[v] # {}

(***************************************************************************)
(* C13: every solve terminates.  The ac3 loop ends from any initial        *)
(* worklist of neighbour arcs, arcs being appended only by an iteration    *)
(* whose revise strictly shrank a domain; backtrack ends, each nested      *)
(* call being made with exactly one more slot assigned than its caller,    *)
(* so that nesting never exceeds the number of slots.                      *)
(***************************************************************************)
\* Some domain lost a word in this step and none gained one.
StrictlyShrinks ==
    /\ \A v \in crossword.variables : domains'[v] \subseteq domains[v]
    /\ \E v \in crossword.variables : domains'[v] # domains[v]

\* Frame k of the stack was entered with k - 1 slots assigned.
NestingCountsSlots ==
    /\ Len(stack) <= Cardinality(crossword.variables)
    /\ \A k \in 1 .. Len(stack) : Cardinality(DOMAIN stack[k].entry) = k - 1

C13_SolveTerminates ==
    /\ <>(pc = "done")
    /\ [][(pc = "ac3_loop" /\ queue # <<>> /\ Len(queue') >= Len(queue))
              => StrictlyShrinks]_vars
    /\ []NestingCountsSlots

\* A solve has returned after an ac3 that was handed a worklist short of
\* the default one: it pruned words and returned True without reaching
\* the arc-consistent domains; the search then ran on three slots.
C13_Witness ==
    /\ pc = "done"
    /\ ac3ret = "True"
    /\ domains # NodeConsistentDomains
    /\ domains # ArcFixpoint(NodeConsistentDomains)
    /\ Cardinality(crossword.variables) = 3

=============================================================================
